---- MODULE Spec2Model ----
(***************************************************************************)
(* SarvClient (sarvcrm_api/sarv_client.py) and SarvModule                  *)
(* (sarvcrm_api/modules/_base.py): request construction, the bearer token  *)
(* and the interpretation of the server's response.                        *)
(*                                                                         *)
(* Python values are tagged records, so that None, '' and {} stay apart:   *)
(*   [t |-> "None"], [t |-> "str", s |-> ..], [t |-> "int", n |-> ..],     *)
(*   [t |-> "list", items |-> <<..>>], [t |-> "dict", map |-> [k |-> v]].  *)
(* Keyword dictionaries (query, body, headers) are TLA+ functions from     *)
(* key strings to such values.                                             *)
(***************************************************************************)
EXTENDS Integers, Sequences, FiniteSets, TLC

VARIABLES token, server, op, wire, ret, session

vars == <<token, server, op, wire, ret, session>>

-----------------------------------------------------------------------------
(* Python values *)

None == [t |-> "None"]

Str(s) == [t |-> "str", s |-> s]

Num(n) == [t |-> "int", n |-> n]

List(items) == [t |-> "list", items |-> items]

Dict(map) == [t |-> "dict", map |-> map]

EmptyMap == [k \in {} |-> None]

\* bool(v): None, '', 0, [] and {} are falsy
Truthy(v) ==
    CASE v.t = "None" -> FALSE
      [] v.t = "str"  -> v.s # ""
      [] v.t = "int"  -> v.n # 0
      [] v.t = "list" -> v.items # <<>>
      [] v.t = "dict" -> DOMAIN v.map # {}

\* the outcome of a call: a returned value or a raised exception
Return(v) == [kind |-> "return", value |-> v]

Raise(exc, detail) == [kind |-> "raise", exc |-> exc, detail |-> detail]

NoDetail == [prefix |-> "", status |-> 0, message |-> None]

\* v.get(k, default): only a dict has .get
DictGet(v, k, default) ==
    IF v.t = "dict"
    THEN Return(IF k \in DOMAIN v.map THEN v.map[k] ELSE default)
    ELSE Raise("AttributeError", NoDetail)

\* v[0]
Subscript0(v) ==
    CASE v.t = "list" -> IF v.items # <<>> THEN Return(v.items[1])
                         ELSE Raise("IndexError", NoDetail)
      [] v.t = "dict" -> Raise("KeyError", NoDetail)
      [] OTHER        -> Raise("TypeError", NoDetail)

\* {k: v for k, v in d.items() if v is not None}
DropFalsy(d) == [k \in {j \in DOMAIN d : Truthy(d[j])} |-> d[k]]

DropNone(d) == [k \in {j \in DOMAIN d : d[j] # None} |-> d[k]]

\* a.update(**b)
Update(a, b) == [k \in DOMAIN a \cup DOMAIN b |-> IF k \in DOMAIN b THEN b[k] ELSE a[k]]

-----------------------------------------------------------------------------
(* Module handles *)

\* the handles a client owns; each carries its module's name
ModuleNames == {"Contacts", "Leads"}

SarvModule(name) == [t |-> "SarvModule", module_name |-> name]

Handles == {SarvModule(n) : n \in ModuleNames}

-----------------------------------------------------------------------------
(* SarvClient.create_get_parms *)

create_get_parms(sarv_get_method, sarv_module, addition) ==
    IF sarv_module.t \notin {"None", "SarvModule", "str"}
    THEN Raise("TypeError", NoDetail)
    ELSE LET module_name == CASE sarv_module.t = "None" -> None
                              [] sarv_module.t = "SarvModule" -> Str(sarv_module.module_name)
                              [] sarv_module.t = "str" -> sarv_module
             get_parms == ("method" :> sarv_get_method) @@ ("module" :> module_name)
         IN  Return(Dict(Update(DropNone(get_parms), addition)))

\* SarvModule.create_get_parms: the handle passes itself as the module
module_create_get_parms(self, sarv_get_method, addition) ==
    create_get_parms(Str(sarv_get_method), self, addition)

-----------------------------------------------------------------------------
(* SarvClient.send_request *)

requests_method_map == {"GET", "POST", "PUT", "DELETE"}

\* x or {}
OrEmpty(x) == IF Truthy(x) THEN x.map ELSE EmptyMap

\* the headers of a request: the caller's, Content-Type, and the token if any
Headers(tok, head_parms) ==
    LET h == Update(head_parms, "Content-Type" :> Str("application/json"))
    IN  IF Truthy(tok) THEN Update(h, "Authorization" :> Str("Bearer " \o tok.s)) ELSE h

\* one call of the transport function: the request goes out, the response comes back
ExchangeRetry(sent, request, response) ==
    IF response.status >= 500 THEN sent \o <<request, request>> ELSE Append(sent, request)

Exchange(sent, request, response) == Append(sent, request)

\* json.loads(response.text)
json_loads(text) ==
    IF text.json THEN Return(text.doc) ELSE Raise("JSONDecodeError", NoDetail)

\* requests' Response.raise_for_status: HTTPError for 400..599, nothing otherwise
raise_for_status(status) == 400 <= status /\ status < 600

Message(response_dict) == DictGet(response_dict, "message", Str("Unknown error"))

SarvException(prefix, status, message) ==
    Raise("SarvException", [prefix |-> prefix, status |-> status, message |-> message])

\* lines 139-162: the outcome for a response
Interpret(response) ==
    LET status == response.status
        loaded == json_loads(response.text)
    IN  IF 200 <= status /\ status < 500 /\ loaded.kind = "raise"
        THEN loaded
        ELSE IF ~(200 <= status /\ status < 500) /\ raise_for_status(status)
        THEN Raise("HTTPError", [prefix |-> "", status |-> status, message |-> None])
        ELSE IF 200 <= status /\ status < 300
        THEN DictGet(loaded.value, "data", Dict(EmptyMap))
        ELSE IF 300 <= status /\ status < 400
        THEN LET m == Message(loaded.value)
             IN  IF m.kind = "raise" THEN m
                 ELSE SarvException("Redirection Response: ", status, m.value)
        ELSE IF ~(200 <= status /\ status < 500)
        THEN Raise("UnboundLocalError", NoDetail)
        ELSE LET m == Message(loaded.value)
             IN  IF m.kind = "raise" THEN m
                 ELSE SarvException("", status, m.value)

\* send_request reads self.token and never assigns it
TokenAfterReject(tok, outcome) ==
    IF outcome.kind = "raise" /\ outcome.exc = "SarvException" /\ outcome.detail.status >= 400
    THEN Str("") ELSE tok

TokenAfter(tok, outcome) == tok

\* the whole of send_request: what went on the wire and what the caller gets
send_request(tok, request_method, head_parms, get_parms, post_parms, response) ==
    LET headers == Headers(tok, OrEmpty(head_parms))
        request == [verb |-> request_method, params |-> OrEmpty(get_parms),
                    headers |-> headers, json |-> OrEmpty(post_parms)]
    IN  IF request_method \notin requests_method_map
        THEN [wire |-> <<>>, ret |-> Raise("TypeError", NoDetail), token |-> tok]
        ELSE [wire |-> Exchange(<<>>, request, response), ret |-> Interpret(response),
              token |-> TokenAfter(tok, Interpret(response))]

\* a request whose parameters could not be built is never sent
NotSent(tok, outcome) == [wire |-> <<>>, ret |-> outcome, token |-> tok]

-----------------------------------------------------------------------------
(* SarvClient.login, logout, search_by_number *)

\* the connection settings of the client under study (login_type left unset)
ClientConfig ==
    [utype |-> Str("user"), username |-> Str("alice"), password |-> Str("5ebe2294"),
     login_type |-> None, language |-> Str("en_US")]

Credentials ==
    DropNone(("utype" :> ClientConfig.utype) @@ ("user_name" :> ClientConfig.username)
             @@ ("password" :> ClientConfig.password)
             @@ ("login_type" :> ClientConfig.login_type)
             @@ ("language" :> ClientConfig.language))

\* lines 183-186: what login stores and returns for the data it received
StoreTokenReturnsData(tok, data) ==
    IF Truthy(data)
    THEN LET got == DictGet(data, "token", None)
         IN  IF got.kind = "raise" THEN [ret |-> got, token |-> tok]
             ELSE [ret |-> Return(got.value), token |-> got.value]
    ELSE [ret |-> Return(data), token |-> tok]

StoreToken(tok, data) ==
    IF Truthy(data)
    THEN LET got == DictGet(data, "token", None)
         IN  IF got.kind = "raise" THEN [ret |-> got, token |-> tok]
             ELSE [ret |-> Return(got.value), token |-> got.value]
    ELSE [ret |-> Return(tok), token |-> tok]

login(tok, response) ==
    LET parms == create_get_parms(Str("Login"), None, EmptyMap)
        r == send_request(tok, "POST", None, parms.value, Dict(Credentials), response)
    IN  IF r.ret.kind = "raise" THEN r
        ELSE LET st == StoreToken(r.token, r.ret.value)
             IN  [wire |-> r.wire, ret |-> st.ret, token |-> st.token]

logout(tok) ==
    [wire |-> <<>>, ret |-> Return(None), token |-> IF Truthy(tok) THEN Str("") ELSE tok]

search_by_number(tok, number, module, response) ==
    LET parms == create_get_parms(Str("SearchByNumber"), module, "number" :> number)
    IN  IF parms.kind = "raise" THEN NotSent(tok, parms)
        ELSE send_request(tok, "GET", None, parms.value, None, response)

-----------------------------------------------------------------------------
(* SarvModule: the operations of a handle *)

\* the post_parms of read_list and get_relationships: the options that are not None
ListOptions(o) ==
    DropNone(("query" :> o.query) @@ ("order_by" :> o.order_by)
             @@ ("select_fields" :> o.select_fields)
             @@ ("limit" :> o.limit) @@ ("offset" :> o.offset))

\* send_request(...).get('id'), .get('id', {}) and [0]: applied to the value
\* send_request returned; an exception of send_request passes through
GetId(r) ==
    IF r.ret.kind = "raise" THEN r
    ELSE [r EXCEPT !.ret = DictGet(r.ret.value, "id", None)]

GetIdOrEmpty(r) ==
    IF r.ret.kind = "raise" THEN r
    ELSE [r EXCEPT !.ret = DictGet(r.ret.value, "id", Dict(EmptyMap))]

First(r) ==
    IF r.ret.kind = "raise" THEN r
    ELSE [r EXCEPT !.ret = Subscript0(r.ret.value)]

create(self, tok, fields_data, response) ==
    GetIdOrEmpty(send_request(tok, "POST", None,
                              module_create_get_parms(self, "Save", EmptyMap).value,
                              Dict(fields_data), response))

read_list(self, tok, o, response) ==
    send_request(tok, "POST", None,
                 module_create_get_parms(self, "Retrieve", EmptyMap).value,
                 Dict(ListOptions(o)), response)

read_record(self, tok, pk, response) ==
    First(send_request(tok, "GET", None,
                       module_create_get_parms(self, "Retrieve", "id" :> pk).value,
                       None, response))

update(self, tok, pk, fields_data, response) ==
    GetId(send_request(tok, "PUT", None,
                       module_create_get_parms(self, "Save", "id" :> pk).value,
                       Dict(fields_data), response))

delete(self, tok, pk, response) ==
    GetId(send_request(tok, "DELETE", None,
                       module_create_get_parms(self, "Save", "id" :> pk).value,
                       None, response))

get_module_fields(self, tok, response) ==
    send_request(tok, "GET", None,
                 module_create_get_parms(self, "GetModuleFields", EmptyMap).value,
                 None, response)

get_relationships(self, tok, related_field, o, response) ==
    send_request(tok, "POST", None,
                 module_create_get_parms(self, "GetRelationship",
                                         "related_field" :> related_field).value,
                 Dict(ListOptions(o)), response)

save_relationships(self, tok, pk, field_name, related_records, response) ==
    send_request(tok, "POST", None,
                 module_create_get_parms(self, "SaveRelationships", "id" :> pk).value,
                 Dict(("field_name" :> field_name) @@ ("related_records" :> related_records)),
                 response)

-----------------------------------------------------------------------------
(* The server and the callers' arguments *)

\* the ends of each status range the code tells apart, and one status outside 100..599
Statuses == {199, 200, 299, 300, 399, 400, 499, 500, 599, 600}

Tokens == {"t1", "t2"}

\* the longest result list the server returns
MaxRecords == 1

Record(i) == Dict(("id" :> Num(i)) @@ ("name" :> Str("A")))

ResultLists == {List([i \in 1..n |-> Record(i)]) : n \in 0..MaxRecords}

\* what the server puts in the data field
Payloads ==
    {None, Dict(EmptyMap), Dict("id" :> Str("42")), Dict("token" :> Str(""))}
    \cup ResultLists
    \cup {Dict("token" :> Str(t)) : t \in Tokens}

\* the JSON documents a body may hold: an object with or without data and message,
\* or a document that is not an object
Documents ==
    {List(<<>>), Dict(EmptyMap), Dict("message" :> Str("moved")),
     Dict(("data" :> List(<<Record(1)>>)) @@ ("message" :> Str("ok")))}
    \cup {Dict("data" :> p) : p \in Payloads}

\* response.text: a JSON document, or text that is not JSON
NotJson == [json |-> FALSE, doc |-> None]

Texts == {NotJson} \cup {[json |-> TRUE, doc |-> d] : d \in Documents}

Responses == [status : Statuses, text : Texts]

OptionNames == {"query", "order_by", "select_fields", "limit", "offset"}

\* a value for each option; [] and 0 are not None and must be sent
OptionValue ==
    ("query" :> Str("q")) @@ ("order_by" :> Str("name")) @@ ("select_fields" :> List(<<>>))
    @@ ("limit" :> Num(0)) @@ ("offset" :> Num(5))

\* the options a caller supplies: none, any one of them, or all of them
Supplied == {{}, OptionNames} \cup {{n} : n \in OptionNames}

Options == {[n \in OptionNames |-> IF n \in given THEN OptionValue[n] ELSE None] : given \in Supplied}

Fields == {EmptyMap, "name" :> Str("A")}

Keys == {Str("X"), Str("Y")}

RelatedFields == {Str("contacts"), Str("cases")}

\* what a caller may pass as a module: nothing, a name, a handle, or something else
ModuleArguments == {None, Str("Contacts"), SarvModule("Leads"), Num(5)}

Methods == requests_method_map \cup {"PATCH"}

-----------------------------------------------------------------------------
(* The state machine.  token is SarvClient.token.  server is the response   *)
(* the server gives to a request.  op, wire and ret describe the last call: *)
(* the operation and its arguments, the requests it sent, and what the      *)
(* caller got.  session is history: the token of the last login that        *)
(* received a non-empty token, "" after logout.                             *)

NoCall == [name |-> "none", self |-> None, args |-> EmptyMap]

NotCalled == [kind |-> "none"]

\* a 2xx response carrying a non-empty token in its data envelope
GrantsToken(response) ==
    /\ 200 <= response.status /\ response.status < 300
    /\ response.text.json
    /\ response.text.doc.t = "dict"
    /\ "data" \in DOMAIN response.text.doc.map
    /\ response.text.doc.map["data"].t = "dict"
    /\ "token" \in DOMAIN response.text.doc.map["data"].map
    /\ response.text.doc.map["data"].map["token"].t = "str"
    /\ response.text.doc.map["data"].map["token"].s # ""

GrantedToken(response) == response.text.doc.map["data"].map["token"].s

Init ==
    /\ token = Str("")
    /\ server \in Responses
    /\ op = NoCall
    /\ wire = <<>>
    /\ ret = NotCalled
    /\ session = ""

\* one call of the client, answered by the response the server holds
Called(name, self, args, r) ==
    /\ op = NoCall
    /\ op' = [name |-> name, self |-> self, args |-> args]
    /\ wire' = r.wire
    /\ ret' = r.ret
    /\ token' = r.token
    /\ UNCHANGED server

\* the server is set up to answer the next request (its status, its body); the
\* record of the last call is dropped
ServerStatus ==
    \E st \in Statuses :
        /\ server' = [server EXCEPT !.status = st]
        /\ op' = NoCall /\ wire' = <<>> /\ ret' = NotCalled
        /\ UNCHANGED <<token, session>>

ServerText ==
    \E tx \in Texts :
        /\ server' = [server EXCEPT !.text = tx]
        /\ op' = NoCall /\ wire' = <<>> /\ ret' = NotCalled
        /\ UNCHANGED <<token, session>>

Login ==
    /\ Called("login", None, EmptyMap, login(token, server))
    /\ session' = IF GrantsToken(server) THEN GrantedToken(server) ELSE session

Logout ==
    /\ Called("logout", None, EmptyMap, logout(token))
    /\ session' = ""

SearchByNumber ==
    \E m \in ModuleArguments :
        /\ Called("search_by_number", None, ("number" :> Str("0912")) @@ ("module" :> m),
                  search_by_number(token, Str("0912"), m, server))
        /\ UNCHANGED session

SendRequest ==
    \E method \in Methods, head \in {None, Dict("X-Trace" :> Str("1"))} :
        /\ Called("send_request", None, ("request_method" :> Str(method)) @@ ("head_parms" :> head),
                  send_request(token, method, head, None, None, server))
        /\ UNCHANGED session

CreateGetParms ==
    \E m \in {None, Str("Retrieve")}, module \in ModuleArguments,
       addition \in {EmptyMap, "id" :> Str("X"), "id" :> None} :
        /\ Called("create_get_parms", None,
                  ("sarv_get_method" :> m) @@ ("sarv_module" :> module)
                  @@ ("addition" :> Dict(addition)),
                  NotSent(token, create_get_parms(m, module, addition)))
        /\ UNCHANGED session

Create ==
    \E self \in Handles, f \in Fields :
        /\ Called("create", self, f, create(self, token, f, server))
        /\ UNCHANGED session

ReadList ==
    \E self \in Handles, o \in Options :
        /\ Called("read_list", self, o, read_list(self, token, o, server))
        /\ UNCHANGED session

ReadRecord ==
    \E self \in Handles, pk \in Keys :
        /\ Called("read_record", self, "pk" :> pk, read_record(self, token, pk, server))
        /\ UNCHANGED session

Update_ ==
    \E self \in Handles, pk \in Keys, f \in Fields :
        /\ Called("update", self, ("pk" :> pk) @@ ("fields_data" :> Dict(f)),
                  update(self, token, pk, f, server))
        /\ UNCHANGED session

Delete ==
    \E self \in Handles, pk \in Keys :
        /\ Called("delete", self, "pk" :> pk, delete(self, token, pk, server))
        /\ UNCHANGED session

GetModuleFields ==
    \E self \in Handles :
        /\ Called("get_module_fields", self, EmptyMap, get_module_fields(self, token, server))
        /\ UNCHANGED session

GetRelationships ==
    \E self \in Handles, o \in Options, related_field \in RelatedFields :
        /\ Called("get_relationships", self, o @@ ("related_field" :> related_field),
                  get_relationships(self, token, related_field, o, server))
        /\ UNCHANGED session

SaveRelationships ==
    \E self \in Handles, pk \in Keys :
        /\ Called("save_relationships", self, "pk" :> pk,
                  save_relationships(self, token, pk, Str("contacts"),
                                     List(<<Str("Y")>>), server))
        /\ UNCHANGED session

Next ==
    \/ ServerStatus
    \/ ServerText
    \/ Login
    \/ Logout
    \/ SearchByNumber
    \/ SendRequest
    \/ CreateGetParms
    \/ Create
    \/ ReadList
    \/ ReadRecord
    \/ Update_
    \/ Delete
    \/ GetModuleFields
    \/ GetRelationships
    \/ SaveRelationships

Spec == Init /\ [][Next]_vars

-----------------------------------------------------------------------------
(* Vocabulary of the properties *)

HandleOps ==
    {"create", "read_list", "read_record", "update", "delete", "get_module_fields",
     "get_relationships", "save_relationships"}

Is2xx(r) == 200 <= r.status /\ r.status < 300
Is3xx(r) == 300 <= r.status /\ r.status < 400
Is4xx(r) == 400 <= r.status /\ r.status < 500

\* the body is a JSON object
JsonObject(r) == r.text.json /\ r.text.doc.t = "dict"

HasField(r, k) == JsonObject(r) /\ k \in DOMAIN r.text.doc.map

Field(r, k) == r.text.doc.map[k]

\* the error kinds of the specification, as the exceptions the client raises
RedirectionError(o) == o.kind = "raise" /\ o.exc = "SarvException"
                       /\ o.detail.prefix = "Redirection Response: "
ApiError(o) == o.kind = "raise" /\ o.exc = "SarvException" /\ o.detail.prefix = ""
TransportError(o) == o.kind = "raise" /\ o.exc = "HTTPError"
UnsupportedMethodError(o) == o.kind = "raise" /\ o.exc = "TypeError"
EmptyResultError(o) == o.kind = "raise" /\ o.exc = "IndexError"

\* the message the specification gives an error: the body's message or "Unknown error"
MessageOrUnknown(r) == IF HasField(r, "message") THEN Field(r, "message") ELSE Str("Unknown error")

HasAuthorization(request) == "Authorization" \in DOMAIN request.headers

-----------------------------------------------------------------------------
(* C1: after a login that received a non-empty token t, every request of a  *)
(* handle operation or of searchByNumber carries Authorization: Bearer t    *)
(* until logout() is called, and carries no Authorization header after      *)
(* logout() until the next such login.  (session is t, or "" after logout.) *)
C1_BearerUntilLogout ==
    (op.name \in HandleOps \cup {"search_by_number"}) =>
        \A i \in 1..Len(wire) :
            IF session # ""
            THEN /\ HasAuthorization(wire[i])
                 /\ wire[i].headers["Authorization"] = Str("Bearer " \o session)
            ELSE ~HasAuthorization(wire[i])

(* C2: the map create_get_parms returns has no key whose value is None,     *)
(* whatever the operation name, the module argument and the extra           *)
(* parameters, each of which may be None.                                   *)
C2_NoNoneValue ==
    (op.name = "create_get_parms" /\ ret.kind = "return") =>
        \A k \in DOMAIN ret.value.map : ret.value.map[k] # None

(* C3: for a body that is a JSON object the status alone decides what       *)
(* send_request does: 2xx returns the data field ({} when absent), 3xx      *)
(* raises RedirectionError and 4xx ApiError with the body's message or      *)
(* "Unknown error", and every status of 500 or above raises TransportError. *)
C3_StatusDecides ==
    (op.name = "send_request" /\ wire # <<>> /\ JsonObject(server)) =>
        /\ Is2xx(server) =>
              ret = Return(IF HasField(server, "data") THEN Field(server, "data")
                           ELSE Dict(EmptyMap))
        /\ Is3xx(server) =>
              /\ RedirectionError(ret)
              /\ ret.detail.message = MessageOrUnknown(server)
        /\ Is4xx(server) =>
              /\ ApiError(ret)
              /\ ret.detail.status = server.status
              /\ ret.detail.message = MessageOrUnknown(server)
        /\ server.status >= 500 => TransportError(ret)

(* C4: every 4xx response, whether or not its body is JSON, makes           *)
(* send_request raise ApiError with that status, with message "Unknown      *)
(* error" when no message can be read; no other error is raised for 4xx.    *)
C4_ApiErrorForEvery4xx ==
    (op.name = "send_request" /\ wire # <<>> /\ Is4xx(server)) =>
        /\ ApiError(ret)
        /\ ret.detail.status = server.status
        /\ ret.detail.message = MessageOrUnknown(server)

\* a 2xx response with a JSON object whose data field is absent or falsy
FalsyEnvelope(r) ==
    /\ Is2xx(r) /\ JsonObject(r)
    /\ HasField(r, "data") => ~Truthy(Field(r, "data"))

LoginStep == op = NoCall /\ op'.name = "login"

(* C5 as stated: a login that receives a 2xx response with a falsy or       *)
(* absent data envelope leaves the token unchanged and returns a falsy      *)
(* value, not a token.                                                      *)
C5_ReturnsNothing ==
    [][(LoginStep /\ FalsyEnvelope(server)) =>
           /\ token' = token
           /\ ret'.kind = "return" /\ ~Truthy(ret'.value)]_vars

(* C5 amended: a login that receives a 2xx response with a falsy or absent  *)
(* data envelope leaves the token unchanged and returns the stored token:   *)
(* '' when the client is unauthenticated, the earlier token otherwise.      *)
C5_ReturnsStoredToken ==
    [][(LoginStep /\ FalsyEnvelope(server)) =>
           /\ token' = token
           /\ ret' = Return(token)]_vars

\* a login with a falsy envelope has returned the token of an earlier login
C5_Witness ==
    /\ op.name = "login" /\ FalsyEnvelope(server)
    /\ token = Str("t1") /\ ret = Return(Str("t1"))

(* C6: read_record sends a GET for Retrieve with the id in the query; for a *)
(* 2xx response it returns the first element of a non-empty result list and *)
(* fails with EmptyResultError when data is an empty list or is absent.     *)
C6_EmptyResult ==
    (op.name = "read_record" /\ Is2xx(server) /\ JsonObject(server)) =>
        /\ Len(wire) = 1
        /\ wire[1].verb = "GET"
        /\ wire[1].params = ("method" :> Str("Retrieve"))
                            @@ ("module" :> Str(op.self.module_name))
                            @@ ("id" :> op.args["pk"])
        /\ IF HasField(server, "data")
           THEN Field(server, "data").t = "list" =>
                    IF Field(server, "data").items # <<>>
                    THEN ret = Return(Field(server, "data").items[1])
                    ELSE EmptyResultError(ret)
           ELSE EmptyResultError(ret)

(* C7: only login and logout change the token: every handle operation,      *)
(* search_by_number, create_get_parms and a direct send_request leave it as *)
(* it was, whatever the outcome, a 4xx rejection included.                  *)
C7_OnlyLoginLogoutChangeToken ==
    [][token' # token => op'.name \in {"login", "logout"}]_vars

\* a handle operation was rejected with a 4xx and the token is still the one stored
C7_Witness ==
    /\ op.name \in HandleOps /\ Is4xx(server) /\ ApiError(ret)
    /\ token = Str("t1")

(* C8: no operation sends more than once: logout sends nothing, every other *)
(* call sends at most one request, none when it fails before sending (an    *)
(* unsupported method, a module argument of the wrong type); a call that    *)
(* fails has sent at most that one request.                                 *)
C8_AtMostOneRequest ==
    /\ Len(wire) <= 1
    /\ op.name \in {"logout", "create_get_parms", "none"} => wire = <<>>
    /\ (op.name = "send_request" /\ op.args["request_method"].s \notin requests_method_map) =>
           wire = <<>> /\ UnsupportedMethodError(ret)
    /\ (op.name = "search_by_number" /\ op.args["module"].t \notin {"None", "str", "SarvModule"}) =>
           wire = <<>> /\ ret.kind = "raise"

\* a call failed on a 5xx response after exactly one request
C8_Witness ==
    /\ op.name = "read_list" /\ server.status >= 500 /\ TransportError(ret)
    /\ Len(wire) = 1

\* the verb, the operation name and the extra query parameter each operation is to use
VerbOf ==
    ("create" :> "POST") @@ ("read_list" :> "POST") @@ ("read_record" :> "GET")
    @@ ("update" :> "PUT") @@ ("delete" :> "DELETE") @@ ("get_module_fields" :> "GET")
    @@ ("get_relationships" :> "POST") @@ ("save_relationships" :> "POST")

OperationOf ==
    ("create" :> "Save") @@ ("read_list" :> "Retrieve") @@ ("read_record" :> "Retrieve")
    @@ ("update" :> "Save") @@ ("delete" :> "Save")
    @@ ("get_module_fields" :> "GetModuleFields")
    @@ ("get_relationships" :> "GetRelationship")
    @@ ("save_relationships" :> "SaveRelationships")

ExtraOf(o) ==
    CASE o.name \in {"read_record", "update", "delete", "save_relationships"} ->
             "id" :> o.args["pk"]
      [] o.name = "get_relationships" -> "related_field" :> o.args["related_field"]
      [] OTHER -> EmptyMap

\* the options of a call that were supplied, that is, are not None
SuppliedOptions(o) ==
    [k \in {n \in OptionNames : o.args[n].t # "None"} |-> o.args[k]]

\* the body each operation is to send
BodyOf(o) ==
    CASE o.name \in {"read_list", "get_relationships"} -> SuppliedOptions(o)
      [] o.name = "create" -> o.args
      [] o.name = "update" -> o.args["fields_data"].map
      [] o.name = "save_relationships" ->
             ("field_name" :> Str("contacts")) @@ ("related_records" :> List(<<Str("Y")>>))
      [] OTHER -> EmptyMap

(* C9: every handle operation sends exactly one request; its verb is the    *)
(* operation's; its query is method = the operation name, module = the      *)
(* handle's module name, plus id (read_record, update, delete,              *)
(* save_relationships) or related_field (get_relationships) and nothing     *)
(* else; the body of read_list and get_relationships holds exactly the      *)
(* options supplied as non-null, that of create and update the fields, that *)
(* of save_relationships field_name and related_records, and the others {}. *)
C9_RequestShape ==
    (op.name \in HandleOps) =>
        /\ Len(wire) = 1
        /\ wire[1].verb = VerbOf[op.name]
        /\ wire[1].params = ("method" :> Str(OperationOf[op.name]))
                            @@ ("module" :> Str(op.self.module_name))
                            @@ ExtraOf(op)
        /\ wire[1].json = BodyOf(op)

\* read_list() without arguments on the Contacts handle: the query is
\* {method: Retrieve, module: Contacts} and the body is {}
C9_Witness ==
    /\ op.name = "read_list" /\ op.self = SarvModule("Contacts")
    /\ \A n \in OptionNames : op.args[n] = None
    /\ Len(wire) = 1 /\ wire[1].verb = "POST"
    /\ wire[1].params = ("method" :> Str("Retrieve")) @@ ("module" :> Str("Contacts"))
    /\ wire[1].json = EmptyMap

(* C10: in every reachable state the token is a string: '' exactly when the *)
(* client is unauthenticated (at construction and after every logout),      *)
(* never None or another non-string value.                                  *)
C10_TokenIsString ==
    /\ token.t = "str"
    /\ op.name = "logout" => token = Str("")

====
